---- MODULE Spec2Model ----
(***************************************************************************)
(* Model of the POST /check handler of the phishing detection API          *)
(* (src/main.py, check_url).  One request is in flight at a time; the      *)
(* handler is split at its only suspension point, the awaited outbound     *)
(* POST to the inference provider.                                         *)
(*                                                                         *)
(* Python strings are sequences of one-character strings, so that          *)
(* str.lower() and the substring operator `in` are computed and not        *)
(* assumed.  Scores are probabilities in hundredths (0.8 is 80).           *)
(***************************************************************************)
EXTENDS Integers, Sequences, FiniteSets, TLC

VARIABLES HF_TOKEN, pc, request, outbound, reply, response

vars == <<HF_TOKEN, pc, request, outbound, reply, response>>

\* Longest prediction sequence the upstream is made to return.
MaxPreds == 2

----
\* Python values: None and str.

None == [t |-> "null", s |-> <<>>]

PyStr(chars) == [t |-> "str", s |-> chars]

\* Truth value testing of `not x` for None and str.
Falsy(v) == v.t = "null" \/ Len(v.s) = 0

UpperCase == <<"A", "B", "C", "D", "E", "F", "G", "H", "I", "J", "K", "L", "M", "N", "O", "P", "Q", "R", "S", "T", "U", "V", "W", "X", "Y", "Z">>

LowerCase == <<"a", "b", "c", "d", "e", "f", "g", "h", "i", "j", "k", "l", "m", "n", "o", "p", "q", "r", "s", "t", "u", "v", "w", "x", "y", "z">>

LowerChar(c) ==
    IF \E i \in 1..26 : UpperCase[i] = c
    THEN LowerCase[CHOOSE i \in 1..26 : UpperCase[i] = c]
    ELSE c

\* str.lower()
Lower(s) == [i \in 1..Len(s) |-> LowerChar(s[i])]

\* sub in s
Contains(sub, s) ==
    \E i \in 0..(Len(s) - Len(sub)) : SubSeq(s, i + 1, i + Len(sub)) = sub

S_1 == <<"1">>

S_0 == <<"0">>

S_phishing == <<"p", "h", "i", "s", "h", "i", "n", "g">>

S_legitimate == <<"l", "e", "g", "i", "t", "i", "m", "a", "t", "e">>

S_legit == <<"l", "e", "g", "i", "t">>

S_loading == <<"l", "o", "a", "d", "i", "n", "g">>

L_LABEL_1 == <<"L", "A", "B", "E", "L", "_", "1">>

L_LABEL_0 == <<"L", "A", "B", "E", "L", "_", "0">>

L_LABEL_10 == <<"L", "A", "B", "E", "L", "_", "1", "0">>

L_Phishing == <<"P", "h", "i", "s", "h", "i", "n", "g">>

L_LEGITIMATE == <<"L", "E", "G", "I", "T", "I", "M", "A", "T", "E">>

L_legit == <<"l", "e", "g", "i", "t">>

L_safe == <<"s", "a", "f", "e">>

T_Loading == <<"M", "o", "d", "e", "l", " ", "i", "s", " ", "L", "o", "a", "d", "i", "n", "g">>

T_busy == <<"b", "u", "s", "y">>

K_error == <<"e", "r", "r", "o", "r">>

ReprOpen == <<"{", "'">>

ReprMid == <<"'", ":", " ", "'">>

ReprClose == <<"'", "}">>

ReprNone == <<"N", "o", "n", "e">>

----
\* The request body: a dict that may or may not carry the key "url".

NoRequest == [present |-> FALSE, hasUrl |-> FALSE, url |-> None]

Requests ==
    {[present |-> TRUE, hasUrl |-> FALSE, url |-> None]}
    \cup {[present |-> TRUE, hasUrl |-> TRUE, url |-> u] :
            u \in {None, PyStr(<<>>), PyStr(<<" ">>), PyStr(<<"a">>)}}

\* request.get("url", "")
GetUrl(req) == IF req.hasUrl THEN req.url ELSE PyStr(<<>>)

\* os.getenv("HF_TOKEN"): unset, set to the empty string, or set.
Tokens == {None, PyStr(<<>>), PyStr(<<"t">>)}

----
\* What the upstream sends back.

\* One entry of the prediction list: a dict with optional label and score.
Labels == {L_LABEL_1, L_LABEL_0, L_LABEL_10, L_Phishing, L_LEGITIMATE, L_legit, L_safe}

Scores == {50, 51, 80, 81}

\* The two labels of the deployed model carry every score, the others one.
Preds ==
    {[hasLabel |-> TRUE, label |-> l, hasScore |-> TRUE, score |-> s] :
        l \in {L_LABEL_1, L_LABEL_0}, s \in Scores}
    \cup {[hasLabel |-> TRUE, label |-> l, hasScore |-> TRUE, score |-> 81] :
            l \in Labels \ {L_LABEL_1, L_LABEL_0}}
    \cup {[hasLabel |-> FALSE, label |-> <<>>, hasScore |-> TRUE, score |-> 81],
          [hasLabel |-> TRUE, label |-> L_LABEL_1, hasScore |-> FALSE, score |-> 0]}

\* pred.get("label", "")
PredLabel(pred) == IF pred.hasLabel THEN pred.label ELSE <<>>

\* pred.get("score", 0.0)
PredScore(pred) == IF pred.hasScore THEN pred.score ELSE 0

NoPred == [hasLabel |-> FALSE, label |-> <<>>, hasScore |-> FALSE, score |-> 0]

\* An element of a JSON list: a dict (pred) or a list of dicts (items).
DictElem(p) == [islist |-> FALSE, items |-> <<>>, pred |-> p]

ListElem(ps) == [islist |-> TRUE, items |-> ps, pred |-> NoPred]

\* A response body.  json = "invalid": the text is not JSON; "null": null;
\* "str": the JSON string text; "obj": the object {key: text}; "list": the
\* list of the elements items.
NoBody == [json |-> "none", key |-> <<>>, text |-> <<>>, items |-> <<>>]

Texts == {T_Loading, T_busy}

ErrorBodies ==
    {[json |-> j, key |-> <<>>, text |-> x, items |-> <<>>] :
        j \in {"invalid", "str"}, x \in Texts}
    \cup {[json |-> "obj", key |-> K_error, text |-> x, items |-> <<>>] :
            x \in Texts}
    \cup {[json |-> "null", key |-> <<>>, text |-> <<>>, items |-> <<>>]}

\* The prediction lists [pred, ...] of at most MaxPreds entries.
PredSeqs == UNION {[1..n -> {DictElem(p) : p \in Preds}] : n \in 0..MaxPreds}

\* [pred, ...], [[pred, ...]], and a list whose second element is no dict.
ListBodies ==
    {[json |-> "list", key |-> <<>>, text |-> <<>>, items |-> ps] : ps \in PredSeqs}
    \cup {[json |-> "list", key |-> <<>>, text |-> <<>>, items |-> <<ListElem(ps)>>] :
            ps \in PredSeqs}
    \cup {[json |-> "list", key |-> <<>>, text |-> <<>>,
           items |-> <<DictElem(p), ListElem(<<>>)>>] : p \in Preds}

\* Subclasses of httpx.RequestError that client.post raises.
TransportErrors == {"ConnectTimeout", "ReadTimeout", "ConnectError", "ReadError"}

NoReply == [kind |-> "none", exc |-> "none", status_code |-> 0, body |-> NoBody]

StatusCodes == {200, 503, 404, 429, 500}

\* A body other than a list comes with every status; lists come with 200.
Replies ==
    {[kind |-> "response", exc |-> "none", status_code |-> c, body |-> b] :
        c \in StatusCodes, b \in ErrorBodies}
    \cup {[kind |-> "response", exc |-> "none", status_code |-> 200, body |-> b] :
            b \in ListBodies}
    \cup {[kind |-> "exception", exc |-> e, status_code |-> 0, body |-> NoBody] :
            e \in TransportErrors}

\* response.json() raises on a body that is not JSON.
JsonFails(body) == body.json = "invalid"

\* str(error_data) of the parsed body of an error response.
Repr(body) ==
    CASE body.json = "null" -> ReprNone
      [] body.json = "str" -> body.text
      [] body.json = "obj" -> ReprOpen \o body.key \o ReprMid \o body.text \o ReprClose

----
\* Exceptions and the handler's outcome.

\* The class hierarchy of the exceptions the try block can raise.
SuperClasses(cls) ==
    CASE cls \in {"ConnectTimeout", "ReadTimeout"} ->
            {cls, "TimeoutException", "TransportError", "RequestError", "Exception"}
      [] cls \in {"ConnectError", "ReadError"} ->
            {cls, "NetworkError", "TransportError", "RequestError", "Exception"}
      [] cls = "HTTPException" -> {"HTTPException", "Exception"}
      [] cls = "JSONDecodeError" -> {"JSONDecodeError", "ValueError", "Exception"}
      [] cls = "AttributeError" -> {"AttributeError", "Exception"}
      [] cls = "ValueError" -> {"ValueError", "Exception"}

NoResult ==
    [url |-> None, is_phishing |-> FALSE, phishing_probability |-> -1,
     legitimate_probability |-> -1, confidence |-> -1, prediction |-> "",
     risk_level |-> ""]

NoDetail == [msg |-> "", exc |-> "none", body |-> NoBody]

NoResponse == [status |-> 0, detail |-> NoDetail, result |-> NoResult]

\* raise HTTPException(status_code=status, detail=detail)
HTTPException(status, detail) ==
    [type |-> "raise", exc |-> "HTTPException", status |-> status,
     detail |-> detail, result |-> NoResult]

\* An exception that is not an HTTPException leaves the try block.
Raise(cls) ==
    [type |-> "raise", exc |-> cls, status |-> 0, detail |-> NoDetail,
     result |-> NoResult]

Return(result) ==
    [type |-> "return", exc |-> "none", status |-> 200, detail |-> NoDetail,
     result |-> result]

Msg(m) == [msg |-> m, exc |-> "none", body |-> NoBody]
----
\* The decision normalizer.

PhishingLabel(label) == Contains(S_1, label) \/ Contains(S_phishing, label)

LegitimateLabel(label) == Contains(S_0, label) \/ Contains(S_legitimate, label)

\* One pass of the loop body over pred, from the scores acc = <<p, l>>.
ScoreStep(acc, elem) ==
    LET label == Lower(PredLabel(elem.pred))
        score == PredScore(elem.pred)
    IN  IF PhishingLabel(label) THEN <<score, acc[2]>>
        ELSE IF LegitimateLabel(label) THEN <<acc[1], score>>
        ELSE acc

RECURSIVE ScoreLoop(_, _)
\* for pred in predictions, starting from acc
ScoreLoop(acc, predictions) ==
    IF predictions = <<>> THEN acc
    ELSE ScoreLoop(ScoreStep(acc, Head(predictions)), Tail(predictions))

\* A tie counted as phishing.
IsPhishing_tieIsPhishing(phishing_score, legitimate_score) ==
    phishing_score >= legitimate_score

IsPhishing(phishing_score, legitimate_score) == phishing_score > legitimate_score

Max(a, b) == IF a > b THEN a ELSE b

HighThreshold == 80

MediumThreshold == 50

\* The thresholds taken as inclusive.
RiskLevel_inclusive(phishing_score) ==
    IF phishing_score >= HighThreshold THEN "HIGH RISK"
    ELSE IF phishing_score >= MediumThreshold THEN "MEDIUM RISK"
    ELSE "LOW RISK"

RiskLevel(phishing_score) ==
    IF phishing_score > HighThreshold THEN "HIGH RISK"
    ELSE IF phishing_score > MediumThreshold THEN "MEDIUM RISK"
    ELSE "LOW RISK"

\* isinstance(result, list) and len(result) > 0
NonEmptyList(body) == body.json = "list" /\ Len(body.items) > 0

\* result[0] if isinstance(result[0], list) else result
Predictions(body) ==
    IF body.items[1].islist THEN body.items[1].items ELSE body.items

\* pred.get raises AttributeError on an entry that is not a dict.
GetFails(predictions) == \E i \in 1..Len(predictions) : predictions[i].islist

Normalize(url, body) ==
    LET acc == ScoreLoop(<<0, 0>>, Predictions(body))
        phishing_score == acc[1]
        legitimate_score == acc[2]
        is_phishing == IsPhishing(phishing_score, legitimate_score)
    IN  [url |-> url,
         is_phishing |-> is_phishing,
         phishing_probability |-> phishing_score,
         legitimate_probability |-> legitimate_score,
         confidence |-> Max(phishing_score, legitimate_score),
         prediction |-> IF is_phishing THEN "PHISHING" ELSE "LEGITIMATE",
         risk_level |-> RiskLevel(phishing_score)]

----
\* The handler.

\* The url checked before the token.
Precheck_urlFirst(token, req) ==
    IF Falsy(GetUrl(req))
    THEN HTTPException(400, Msg("URL is required"))
    ELSE IF Falsy(token)
    THEN HTTPException(500, Msg("HF_TOKEN not configured. Please set environment variable."))
    ELSE Return(NoResult)

\* The checks before the try block: the token, then the url.
Precheck(token, req) ==
    IF Falsy(token)
    THEN HTTPException(500, Msg("HF_TOKEN not configured. Please set environment variable."))
    ELSE IF Falsy(GetUrl(req))
    THEN HTTPException(400, Msg("URL is required"))
    ELSE Return(NoResult)

\* The 503 branch: raises when the parsed body mentions loading.
ModelLoading(rep) ==
    Contains(S_loading, Lower(Repr(rep.body)))

\* Every upstream error reported as a 500.
UpstreamError_always500(rep) ==
    HTTPException(500,
                  [msg |-> "HuggingFace API error: ", exc |-> "none", body |-> rep.body])

\* The status check that follows the 503 branch.
UpstreamError(rep) ==
    HTTPException(rep.status_code,
                  [msg |-> "HuggingFace API error: ", exc |-> "none", body |-> rep.body])

\* A bare exception in place of the HTTPException.
MalformedResponse_bare == Raise("ValueError")

\* The else branch of the shape test.
MalformedResponse == HTTPException(500, Msg("Unexpected response format from model"))

\* The try block from the point where client.post has answered or raised.
TryBody(url, rep) ==
    IF rep.kind = "exception" THEN Raise(rep.exc)
    ELSE IF rep.status_code = 503 /\ JsonFails(rep.body) THEN Raise("JSONDecodeError")
    ELSE IF rep.status_code = 503 /\ ModelLoading(rep)
    THEN HTTPException(503, Msg("Model is loading. Please try again in 20 seconds."))
    ELSE IF rep.status_code # 200 THEN UpstreamError(rep)
    ELSE IF JsonFails(rep.body) THEN Raise("JSONDecodeError")
    ELSE IF NonEmptyList(rep.body)
    THEN IF GetFails(Predictions(rep.body)) THEN Raise("AttributeError")
         ELSE Return(Normalize(url, rep.body))
    ELSE MalformedResponse

\* The clause for RequestError written before the one for its subclass.
ExceptClauses_requestErrorFirst ==
    <<"RequestError", "TimeoutException", "HTTPException", "Exception">>

\* The except clauses, in the order they are written.
ExceptClauses == <<"TimeoutException", "RequestError", "HTTPException", "Exception">>

\* The body of the except clause for cls, run on the raised outcome.
ExceptBody(cls, raised) ==
    CASE cls = "TimeoutException" ->
            HTTPException(504, Msg("Request timeout. Please try again."))
      [] cls = "RequestError" ->
            HTTPException(500, [msg |-> "Connection error: ", exc |-> raised.exc, body |-> NoBody])
      [] cls = "HTTPException" -> raised
      [] cls = "Exception" ->
            HTTPException(500, [msg |-> "Internal error: ", exc |-> raised.exc, body |-> NoBody])

\* The first except clause that matches the raised exception handles it.
Except(outcome) ==
    IF outcome.type = "return" THEN outcome
    ELSE LET i == CHOOSE k \in 1..Len(ExceptClauses) :
                    /\ ExceptClauses[k] \in SuperClasses(outcome.exc)
                    /\ \A j \in 1..(k - 1) : ExceptClauses[j] \notin SuperClasses(outcome.exc)
         IN  ExceptBody(ExceptClauses[i], outcome)

\* What the framework sends for the handler's outcome.
Respond(outcome) ==
    [status |-> outcome.status, detail |-> outcome.detail, result |-> outcome.result]

----
Init ==
    /\ HF_TOKEN \in Tokens
    /\ pc = "idle"
    /\ request = NoRequest
    /\ outbound = 0
    /\ reply = NoReply
    /\ response = NoResponse

\* POST /check arrives: the handler runs up to the awaited client.post, or
\* raises before it.
CheckUrl ==
    /\ pc = "idle"
    /\ \E req \in Requests :
        LET pre == Precheck(HF_TOKEN, req)
        IN  /\ request' = req
            /\ IF pre.type = "raise"
               THEN /\ response' = Respond(pre)
                    /\ pc' = "done"
                    /\ outbound' = outbound
               ELSE /\ response' = response
                    /\ pc' = "awaiting"
                    /\ outbound' = outbound + 1
    /\ UNCHANGED <<HF_TOKEN, reply>>

\* A 503 answered by posting again.
AwaitPost_retry ==
    /\ pc = "awaiting"
    /\ \E rep \in Replies :
        /\ reply' = rep
        /\ IF rep.status_code = 503 /\ outbound < 2
           THEN /\ response' = response
                /\ pc' = "awaiting"
                /\ outbound' = outbound + 1
           ELSE /\ response' = Respond(Except(TryBody(GetUrl(request), rep)))
                /\ pc' = "done"
                /\ outbound' = outbound
    /\ UNCHANGED <<HF_TOKEN, request>>

\* client.post answers or raises, and the handler runs to its end.
AwaitPost ==
    /\ pc = "awaiting"
    /\ \E rep \in Replies :
        /\ reply' = rep
        /\ response' = Respond(Except(TryBody(GetUrl(request), rep)))
    /\ pc' = "done"
    /\ UNCHANGED <<HF_TOKEN, request, outbound>>

\* The response is sent and the server takes the next request.
NextRequest ==
    /\ pc = "done"
    /\ pc' = "idle"
    /\ request' = NoRequest
    /\ outbound' = 0
    /\ reply' = NoReply
    /\ response' = NoResponse
    /\ UNCHANGED HF_TOKEN

Next == CheckUrl \/ AwaitPost \/ NextRequest

Spec == Init /\ [][Next]_vars

----
\* Properties.

Done == pc = "done"

\* The handler returned the canonical result.
Success == Done /\ response.result # NoResult

Answered == Done /\ reply.kind = "response"

TokenConfigured == HF_TOKEN.t = "str" /\ HF_TOKEN.s # <<>>

Whitespace == {" ", "\t", "\n", "\r"}

RECURSIVE LStrip(_)
LStrip(s) == IF s # <<>> /\ Head(s) \in Whitespace THEN LStrip(Tail(s)) ELSE s

RECURSIVE RStrip(_)
RStrip(s) ==
    IF s # <<>> /\ s[Len(s)] \in Whitespace THEN RStrip(SubSeq(s, 1, Len(s) - 1)) ELSE s

\* str.strip()
Strip(s) == RStrip(LStrip(s))

\* The url is missing, null, "" or whitespace only.
EmptyAfterTrim(req) ==
    \/ ~req.hasUrl
    \/ req.url.t = "null"
    \/ Strip(req.url.s) = <<>>

\* C1 (as claimed): with the credential configured, a request whose url is
\* empty after trimming whitespace is answered 400 "URL is required" and no
\* outbound call is made for it.
C1_EmptyUrlRejected ==
    (request.present /\ TokenConfigured /\ EmptyAfterTrim(request)) =>
        /\ outbound = 0
        /\ Done
        /\ response.status = 400
        /\ response.detail.msg = "URL is required"

\* C2: while HF_TOKEN is not configured every request, whatever its body, is
\* answered 500 "HF_TOKEN not configured" and no outbound call is made.
C2_NoTokenNoCall ==
    (request.present /\ ~TokenConfigured) =>
        /\ Done
        /\ outbound = 0
        /\ reply = NoReply
        /\ response.status = 500
        /\ response.detail.msg = "HF_TOKEN not configured. Please set environment variable."
        /\ response.result = NoResult

\* A request with a usable url was refused for the missing token.
C2_Witness ==
    /\ Done
    /\ ~TokenConfigured
    /\ request.hasUrl /\ request.url = PyStr(<<"a">>)
    /\ response.status = 500

\* C3 (as claimed): every upstream 503, whatever its body, reaches the client
\* as a 503 with the retry-later guidance.
C3_Every503IsRetryLater ==
    (Answered /\ reply.status_code = 503) =>
        /\ response.status = 503
        /\ response.detail.msg = "Model is loading. Please try again in 20 seconds."

\* C4: in every successful result is_phishing = (p > l), so a tie is not
\* phishing; confidence = max(p, l); prediction is "PHISHING" exactly when
\* is_phishing.
C4_Decision ==
    Success =>
        LET r == response.result
            p == r.phishing_probability
            l == r.legitimate_probability
        IN  /\ r.is_phishing = (p > l)
            /\ (p = l => ~r.is_phishing)
            /\ r.confidence >= p /\ r.confidence >= l /\ r.confidence \in {p, l}
            /\ r.prediction = (IF r.is_phishing THEN "PHISHING" ELSE "LEGITIMATE")

\* A successful result with equal, non-default scores.
C4_Witness ==
    /\ Success
    /\ response.result.phishing_probability = response.result.legitimate_probability
    /\ response.result.phishing_probability > 0
    /\ response.result.prediction = "LEGITIMATE"

\* C5: risk_level is HIGH RISK above 0.8, else MEDIUM RISK above 0.5, else
\* LOW RISK, of phishing_probability alone; 0.8 and 0.5 fall in the lower tier.
C5_RiskTier ==
    Success =>
        LET p == response.result.phishing_probability
        IN  response.result.risk_level =
                (CASE p >= 81 -> "HIGH RISK"
                   [] p >= 51 /\ p <= 80 -> "MEDIUM RISK"
                   [] p <= 50 -> "LOW RISK")

\* phishing_probability on the 0.8 boundary under a higher confidence.
C5_Witness ==
    /\ Success
    /\ response.result.phishing_probability = 80
    /\ response.result.legitimate_probability = 81
    /\ response.result.confidence = 81
    /\ response.result.risk_level = "MEDIUM RISK"

\* The upstream's 200 body parsed, and is empty or not a list.
MalformedBody ==
    /\ Answered
    /\ reply.status_code = 200
    /\ reply.body.json \in {"null", "str", "obj", "list"}
    /\ (reply.body.json # "list" \/ reply.body.items = <<>>)

\* C6: a parsed body that is empty or not a sequence fails with 500
\* "Unexpected response format", never a result and never the generic
\* internal error.
C6_Malformed ==
    MalformedBody =>
        /\ response.status = 500
        /\ response.detail.msg = "Unexpected response format from model"
        /\ response.result = NoResult

\* The upstream answered 200 with the empty list.
C6_Witness ==
    /\ MalformedBody
    /\ reply.body.json = "list"
    /\ response.status = 500

\* C7: an upstream status other than 200 and 503 reaches the client as that
\* status with the upstream body in the detail, and no result.
C7_UpstreamStatus ==
    (Answered /\ reply.status_code \notin {200, 503}) =>
        /\ response.status = reply.status_code
        /\ response.detail.msg = "HuggingFace API error: "
        /\ response.detail.body = reply.body
        /\ response.result = NoResult

\* The upstream answered 404 with a JSON error object.
C7_Witness ==
    /\ Answered
    /\ reply.status_code = 404
    /\ reply.body.json = "obj"
    /\ response.status = 404

\* C8: a timeout of the outbound call is answered 504 and any other
\* transport error 500 "Connection error".
C8_TimeoutIs504 ==
    (Done /\ reply.kind = "exception") =>
        /\ reply.exc \in {"ConnectTimeout", "ReadTimeout"} =>
              /\ response.status = 504
              /\ response.detail.msg = "Request timeout. Please try again."
        /\ reply.exc \in {"ConnectError", "ReadError"} =>
              /\ response.status = 500
              /\ response.detail.msg = "Connection error: "
              /\ response.detail.exc = reply.exc

\* The outbound call timed out while reading.
C8_Witness ==
    /\ Done
    /\ reply.exc = "ReadTimeout"
    /\ response.status = 504

\* C9: a request issues at most one outbound call, exactly one when the
\* credential is present and the url is non-empty, and whatever that call
\* brings the request ends with a response and no further call.
C9_OneCall ==
    /\ outbound <= 1
    /\ request.present =>
          (outbound = 1 <=>
              /\ TokenConfigured
              /\ request.hasUrl /\ request.url.t = "str" /\ request.url.s # <<>>)
    /\ reply # NoReply => (Done /\ outbound = 1 /\ response # NoResponse)

\* The one call was answered 503 and the request has ended.
C9_Witness ==
    /\ Done
    /\ reply.status_code = 503
    /\ outbound = 1
    /\ response.status = 503

\* The prediction sequence: the body, unwrapped when its first element is a list.
ClaimedSequence(body) ==
    IF body.items # <<>> /\ body.items[1].islist THEN body.items[1].items ELSE body.items

ClaimedPhishing(label) == Contains(S_1, label) \/ Contains(S_phishing, label)

ClaimedLegitimate(label) ==
    /\ ~ClaimedPhishing(label)
    /\ Contains(S_0, label) \/ Contains(S_legitimate, label) \/ Contains(S_legit, label)

\* The score of the last entry of seq whose lower-cased label satisfies Matches.
LastScore(seq, Matches(_)) ==
    LET hits == {i \in 1..Len(seq) : Matches(Lower(PredLabel(seq[i].pred)))}
    IN  IF hits = {} THEN 0
        ELSE PredScore(seq[CHOOSE i \in hits : \A j \in hits : j <= i].pred)

\* C10 (as claimed): phishing_probability is the score of the last entry whose
\* label contains "1" or "phishing", legitimate_probability that of the last
\* other entry whose label contains "0", "legitimate" or "legit"; 0.0 if none.
C10_LastMatchWins ==
    Success =>
        LET seq == ClaimedSequence(reply.body)
        IN  /\ response.result.phishing_probability = LastScore(seq, ClaimedPhishing)
            /\ response.result.legitimate_probability = LastScore(seq, ClaimedLegitimate)

TypeOK ==
    /\ HF_TOKEN \in Tokens
    /\ pc \in {"idle", "awaiting", "done"}
    /\ request \in Requests \cup {NoRequest}
    /\ outbound \in 0..1
    /\ reply \in Replies \cup {NoReply}

====
